---- MODULE Spec2Model ----
(***************************************************************************)
(* phishlens: the rule-evaluation engine (analyze_html), the scorer        *)
(* (_score_from_findings, _rating), the ten builtin rules and the domain   *)
(* utilities they use, as a state machine.                                 *)
(*                                                                         *)
(* Strings are sequences of one-character strings, so that lower-casing,   *)
(* stripping, splitting and URL parsing are computed, not assumed.         *)
(***************************************************************************)
EXTENDS Integers, Sequences, FiniteSets, TLC

(***************************************************************************)
(* Character-level string helpers (Python str methods used by the code).   *)
(***************************************************************************)
UpperChars == <<"A", "B", "C", "D", "E", "F", "G", "H", "I", "J", "K", "L", "M",
                "N", "O", "P", "Q", "R", "S", "T", "U", "V", "W", "X", "Y", "Z">>

LowerChars == <<"a", "b", "c", "d", "e", "f", "g", "h", "i", "j", "k", "l", "m",
                "n", "o", "p", "q", "r", "s", "t", "u", "v", "w", "x", "y", "z">>

DigitChars == {"0", "1", "2", "3", "4", "5", "6", "7", "8", "9"}

WhiteChars == {" ", "\t", "\n", "\r"}

Range(s) == {s[k] : k \in 1..Len(s)}

Min(S) == CHOOSE x \in S : \A y \in S : x <= y

Max(S) == CHOOSE x \in S : \A y \in S : x >= y

\* str.lower() on one character
LowerChar(c) ==
    IF \E k \in 1..26 : UpperChars[k] = c
    THEN LowerChars[CHOOSE k \in 1..26 : UpperChars[k] = c]
    ELSE c

\* str.lower()
Lower(s) == [k \in 1..Len(s) |-> LowerChar(s[k])]

\* str.strip(): leading and trailing whitespace removed
Strip(s) ==
    LET keep == {k \in 1..Len(s) : s[k] \notin WhiteChars}
    IN IF keep = {} THEN <<>> ELSE SubSeq(s, Min(keep), Max(keep))

\* str.strip(ch) for a single character ch
StripChar(s, ch) ==
    LET keep == {k \in 1..Len(s) : s[k] # ch}
    IN IF keep = {} THEN <<>> ELSE SubSeq(s, Min(keep), Max(keep))

\* str.startswith(p)
StartsWith(s, p) == Len(p) <= Len(s) /\ SubSeq(s, 1, Len(p)) = p

\* str.endswith(p)
EndsWith(s, p) == Len(p) <= Len(s) /\ SubSeq(s, Len(s) - Len(p) + 1, Len(s)) = p

\* str.find(sub) + 1: the first position of sub in s, or 0
Find(s, sub) ==
    LET hits == {k \in 1..(Len(s) - Len(sub) + 1) : SubSeq(s, k, k + Len(sub) - 1) = sub}
    IN IF hits = {} THEN 0 ELSE Min(hits)

\* sub in s
Contains(s, sub) == Find(s, sub) # 0

\* str.split(ch): the pieces of s between occurrences of the character ch
RECURSIVE Split(_, _)
Split(s, ch) ==
    LET i == Find(s, <<ch>>)
    IN IF i = 0 THEN <<s>>
       ELSE <<SubSeq(s, 1, i - 1)>> \o Split(SubSeq(s, i + 1, Len(s)), ch)

(***************************************************************************)
(* utils.py                                                                *)
(***************************************************************************)
SchemeChars == Range(UpperChars) \cup Range(LowerChars) \cup DigitChars \cup {"+", "-", "."}

\* what urlparse returns: the scheme and netloc of its result, or that it
\* raises ValueError (netloc with '[' but no ']', or ']' but no '[')
ParseResult(scheme, netloc) ==
    [scheme |-> scheme, netloc |-> netloc,
     raises |-> ("[" \in Range(netloc)) # ("]" \in Range(netloc))]

\* urlsplit after the scheme: a rest that starts with // has a netloc, which
\* ends before the first of / ? #
SplitNetloc(scheme, rest) ==
    ParseResult(scheme,
        IF Len(rest) >= 2 /\ rest[1] = "/" /\ rest[2] = "/"
        THEN SubSeq(rest, 3,
                Min({k \in 3..Len(rest) : rest[k] \in {"/", "?", "#"}} \cup {Len(rest) + 1}) - 1)
        ELSE <<>>)

\* urlsplit at the first ':' (position i, 0 if none): the text before it is
\* the scheme if it starts with a letter and holds scheme characters only
SplitScheme(url, i) ==
    IF /\ i > 1
       /\ url[1] \in Range(UpperChars) \cup Range(LowerChars)
       /\ \A k \in 1..(i - 1) : url[k] \in SchemeChars
    THEN SplitNetloc(Lower(SubSeq(url, 1, i - 1)), SubSeq(url, i + 1, Len(url)))
    ELSE SplitNetloc(<<>>, url)

\* str.lstrip() of the leading whitespace
LStrip(s) ==
    IF \A k \in 1..Len(s) : s[k] \in WhiteChars THEN <<>>
    ELSE SubSeq(s, Min({k \in 1..Len(s) : s[k] \notin WhiteChars}), Len(s))

\* urlsplit removes tab and newline characters from the URL
RemoveUnsafe(s) == SelectSeq(s, LAMBDA c : c \notin {"\t", "\n", "\r"})

UrlSplit(url) == SplitScheme(url, Find(url, <<":">>))

\* urllib.parse.urlparse, as safe_urlparse and _meta_refresh call it
urlparse(url) == UrlSplit(RemoveUnsafe(LStrip(url)))

\* the except branch of safe_urlparse: urlparse("")
OrEmptyParse(parsed) == IF parsed.raises THEN ParseResult(<<>>, <<>>) ELSE parsed

safe_urlparse(url) == OrEmptyParse(urlparse(url))

\* the netloc after its first '@': netloc.split("@", 1)[-1]
AfterAt(netloc) ==
    IF Find(netloc, <<"@">>) # 0
    THEN SubSeq(netloc, Find(netloc, <<"@">>) + 1, Len(netloc))
    ELSE netloc

\* netloc.split(":", 1)[0]
BeforeColon(netloc) ==
    IF Find(netloc, <<":">>) # 0
    THEN SubSeq(netloc, 1, Find(netloc, <<":">>) - 1)
    ELSE netloc

\* get_domain after netloc = (parsed.netloc or "").strip().lower()
DomainOfNetloc(netloc) ==
    IF netloc = <<>> THEN <<>> ELSE BeforeColon(AfterAt(netloc))

get_domain(url) == DomainOfNetloc(Lower(Strip(safe_urlparse(url).netloc)))

\* _IP_RE: ^(?:\d{1,3}\.){3}\d{1,3}$
is_ip_domain(domain) ==
    LET parts == Split(Strip(Lower(domain)), ".")
    IN /\ Len(parts) = 4
       /\ \A k \in 1..4 : /\ Len(parts[k]) \in 1..3
                          /\ Range(parts[k]) \subseteq DigitChars

subdomain_depth(domain) ==
    LET parts == SelectSeq(Split(domain, "."), LAMBDA p : p # <<>>)
    IN IF Len(parts) <= 2 THEN 0 ELSE Len(parts) - 2

is_allowlisted(domain, allowlist) ==
    LET d == Strip(Lower(domain))
    IN /\ d # <<>>
       /\ \/ d \in allowlist
          \/ \E item \in allowlist :
                LET v == Strip(Lower(item))
                    suffix == SubSeq(v, 3, Len(v))
                IN /\ v # <<>>
                   /\ StartsWith(v, <<"*", ".">>)
                   /\ suffix # <<>>
                   /\ (d = suffix \/ EndsWith(d, <<".">> \o suffix))

(***************************************************************************)
(* report.py, rules.py: Finding, Rule, finding().  The evidence map is a   *)
(* record; a Rule's check is the name of the function it holds.            *)
(***************************************************************************)
Finding(rule_id, title, severity, weight, description, evidence) ==
    [rule_id |-> rule_id, title |-> title, severity |-> severity, weight |-> weight,
     description |-> description, evidence |-> evidence]

Rule(rule_id, title, severity, weight, check) ==
    [rule_id |-> rule_id, title |-> title, severity |-> severity, weight |-> weight,
     check |-> check]

\* a Rule's check: the function it names, and what a supplied check is set to
\* return or raise
Check(fn, out, text) == [fn |-> fn, out |-> out, text |-> text]

finding(rule, description, evidence) ==
    Finding(rule.rule_id, <<rule.title>>, rule.severity, rule.weight, description, evidence)

\* [f(s[1]), ..., f(s[n])] for the elements of s that satisfy keep, in order
MapSelect(s, keep(_), f(_)) ==
    LET sel == SelectSeq(s, keep)
    IN [k \in 1..Len(sel) |-> f(sel[k])]

\* the stable descending sort of Python's sorted(..., reverse=True), as the
\* order of the indices of keys
SortedDesc(keys) ==
    LET rank(i) == 1 + Cardinality({j \in 1..Len(keys) :
                        keys[j] > keys[i] \/ (keys[j] = keys[i] /\ j < i)})
    IN [r \in 1..Len(keys) |-> CHOOSE i \in 1..Len(keys) : rank(i) = r]

(***************************************************************************)
(* builtin_rules.py                                                        *)
(***************************************************************************)
_SUSPICIOUS_TLDS == {<<"t", "k">>, <<"m", "l">>, <<"g", "a">>, <<"c", "f">>, <<"g", "q">>}

get_builtin_rules ==
    << Rule("FORM_ACTION_EXTERNAL", "Form posts to external domain", "high", 25,
            Check("_form_action_external", <<>>, "")),
       Rule("FORM_ACTION_INSECURE_HTTP", "Form action uses insecure HTTP", "high", 20,
            Check("_form_action_http", <<>>, "")),
       Rule("EXTERNAL_JS_MIXED_DOMAINS", "External JS from mixed/unknown domains", "medium", 12,
            Check("_external_js_domains", <<>>, "")),
       Rule("META_REFRESH_REDIRECT", "Meta refresh redirect", "medium", 10,
            Check("_meta_refresh", <<>>, "")),
       Rule("SUSPICIOUS_HIDDEN_INPUTS", "Suspicious hidden inputs", "low", 6,
            Check("_hidden_inputs", <<>>, "")),
       Rule("JS_OBFUSCATION_APIS",
            "Inline JS contains obfuscation APIs (eval/atob/fromCharCode/etc.)", "high", 20,
            Check("_js_obfuscation_apis", <<>>, "")),
       Rule("JS_HIGH_ENTROPY_INLINE", "High-entropy inline JavaScript (often minified)", "low", 6,
            Check("_js_high_entropy_inline", <<>>, "")),
       Rule("JS_LOCALHOST_CALLS", "Inline JS calls localhost/private IP endpoints", "high", 18,
            Check("_js_localhost_calls", <<>>, "")),
       Rule("SUSPICIOUS_DOMAIN_PATTERN",
            "Suspicious domain patterns (IP/punycode/deep subdomains/risky TLD)", "high", 22,
            Check("_suspicious_domain_patterns", <<>>, "")),
       Rule("IFRAME_HIDDEN", "Hidden iframe present", "medium", 12,
            Check("_hidden_iframe", <<>>, "")) >>

\* next(r for r in get_builtin_rules() if r.rule_id == rule_id)
BuiltinRule(rule_id) ==
    LET rs == get_builtin_rules
    IN rs[Min({k \in 1..Len(rs) : rs[k].rule_id = rule_id})]

\* what a check hands back to the engine: a list of findings, or an exception
Returns(out) == [raises |-> FALSE, out |-> out, text |-> ""]

Raises(text) == [raises |-> TRUE, out |-> <<>>, text |-> text]

\* action, method and action_domain of a form, as _form_action_external reads them
FormActionOf(action, method) ==
    [action |-> action, method |-> method, action_domain |-> get_domain(action)]

\* _form_action_external with == for != in the comparison with the base domain
FormActionExternalSameDomain(soup, ctx) ==
    LET rule == BuiltinRule("FORM_ACTION_EXTERNAL")
        read(form) ==
            FormActionOf(Strip(form.action),
                Lower(Strip(IF form.method # <<>> THEN form.method ELSE <<"g", "e", "t">>)))
        hit(f) == /\ f.action # <<>>
                  /\ f.action_domain # <<>>
                  /\ ctx.base_domain # <<>>
                  /\ f.action_domain = ctx.base_domain
                  /\ ~is_allowlisted(f.action_domain, ctx.allowlist)
        mk(f) == finding(rule,
            "A login form submitting to a different domain is a common phishing indicator.",
            [action |-> f.action, method |-> f.method,
             action_domain |-> f.action_domain, base_domain |-> ctx.base_domain])
    IN Returns(MapSelect([k \in 1..Len(soup.forms) |-> read(soup.forms[k])], hit, mk))

_form_action_external(soup, ctx) ==
    LET rule == BuiltinRule("FORM_ACTION_EXTERNAL")
        read(form) ==
            FormActionOf(Strip(form.action),
                Lower(Strip(IF form.method # <<>> THEN form.method ELSE <<"g", "e", "t">>)))
        hit(f) == /\ f.action # <<>>
                  /\ f.action_domain # <<>>
                  /\ ctx.base_domain # <<>>
                  /\ f.action_domain # ctx.base_domain
                  /\ ~is_allowlisted(f.action_domain, ctx.allowlist)
        mk(f) == finding(rule,
            "A login form submitting to a different domain is a common phishing indicator.",
            [action |-> f.action, method |-> f.method,
             action_domain |-> f.action_domain, base_domain |-> ctx.base_domain])
    IN Returns(MapSelect([k \in 1..Len(soup.forms) |-> read(soup.forms[k])], hit, mk))

_form_action_http(soup, ctx) ==
    LET rule == BuiltinRule("FORM_ACTION_INSECURE_HTTP")
        action(form) == Lower(Strip(form.action))
        hit(form) == StartsWith(action(form), <<"h", "t", "t", "p", ":", "/", "/">>)
        mk(form) == finding(rule,
            "Submitting credentials over HTTP is insecure and unusual for legitimate login pages.",
            [action |-> action(form)])
    IN Returns(MapSelect(soup.forms, hit, mk))

_external_js_domains(soup, ctx) ==
    LET rule == BuiltinRule("EXTERNAL_JS_MIXED_DOMAINS")
        srcs == {Strip(soup.scripts[k].src) : k \in 1..Len(soup.scripts)} \ {<<>>}
        domains == {get_domain(src) : src \in srcs} \ {<<>>}
        kept == {d \in domains : ~is_allowlisted(d, ctx.allowlist)}
        suspicious == IF ctx.base_domain # <<>>
                      THEN {d \in kept : d # ctx.base_domain}
                      ELSE kept
    IN Returns(IF suspicious # {}
               THEN << finding(rule,
                    "Loading credential pages with external scripts from unrelated domains increases risk (skimming, injection, phishing kits).",
                    [external_script_domains |-> suspicious, base_domain |-> ctx.base_domain]) >>
               ELSE <<>>)

\* the loop of _meta_refresh: urlparse(redirect) raising ends the check
MetaResult(metas, hit(_), mk(_), raising(_)) ==
    IF \E k \in 1..Len(metas) : raising(metas[k])
    THEN Raises("Invalid IPv6 URL")
    ELSE Returns(MapSelect(metas, hit, mk))

\* the redirect target of a meta refresh content: the text after the first
\* "url=" (any case), stripped of whitespace and quotes
MetaRedirect(content) ==
    StripChar(StripChar(Strip(
        SubSeq(content, Find(Lower(content), <<"u", "r", "l", "=">>) + 4, Len(content))), "\""), "'")

\* what _meta_refresh reads of a meta element
MetaTarget(is_refresh, content, redirect) ==
    [is_refresh |-> is_refresh, content |-> content, redirect |-> redirect,
     parsed |-> urlparse(redirect), redirect_domain |-> get_domain(redirect)]

MetaContent(http_equiv, content) ==
    MetaTarget(http_equiv = <<"r", "e", "f", "r", "e", "s", "h">> /\ Contains(Lower(content), <<"u", "r", "l", "=">>),
               content, MetaRedirect(content))

_meta_refresh(soup, ctx) ==
    LET rule == BuiltinRule("META_REFRESH_REDIRECT")
        read(meta) == MetaContent(Lower(Strip(meta.http_equiv)), Strip(meta.content))
        hit(m) ==
            /\ m.is_refresh
            /\ ~(m.parsed.scheme = <<>> /\ m.parsed.netloc = <<>>)
            /\ ~(/\ m.redirect_domain # <<>>
                 /\ ctx.base_domain # <<>>
                 /\ m.redirect_domain = ctx.base_domain)
            /\ ~(/\ m.redirect_domain # <<>>
                 /\ is_allowlisted(m.redirect_domain, ctx.allowlist))
        mk(m) == finding(rule,
            "Meta refresh redirects to an external domain can be used in phishing to forward victims.",
            [content |-> m.content, redirect |-> m.redirect,
             redirect_domain |-> m.redirect_domain, base_domain |-> ctx.base_domain])
        raising(m) == m.is_refresh /\ m.parsed.raises
    IN MetaResult([k \in 1..Len(soup.metas) |-> read(soup.metas[k])], hit, mk, raising)

HiddenInputKeywords ==
    { <<"t", "o", "k", "e", "n">>, <<"s", "e", "s", "s", "i", "o", "n">>,
      <<"a", "u", "t", "h">>, <<"r", "e", "d", "i", "r", "e", "c", "t">>,
      <<"r", "e", "t", "u", "r", "n">>, <<"n", "e", "x", "t">>, <<"u", "r", "l">> }

\* the value of an input is modelled by the length of its stripped text
_hidden_inputs(soup, ctx) ==
    LET rule == BuiltinRule("SUSPICIOUS_HIDDEN_INPUTS")
        name(i) == Lower(Strip(IF i.name # <<>> THEN i.name ELSE i.id))
        hit(i) == /\ Lower(Strip(i.type)) = <<"h", "i", "d", "d", "e", "n">>
                  /\ name(i) # <<>>
                  /\ \E k \in HiddenInputKeywords : Contains(name(i), k)
                  /\ i.value_len > 120
        mk(i) == finding(rule,
            "Large hidden tokens/redirect parameters can be abused to exfiltrate or redirect.",
            [name |-> name(i), value_len |-> i.value_len])
    IN Returns(MapSelect(soup.inputs, hit, mk))

\* the text of a script is modelled by its stripped length, the pattern
\* lists that the regular expressions hit in it, and ten times its entropy
_js_obfuscation_apis(soup, ctx) ==
    LET rule == BuiltinRule("JS_OBFUSCATION_APIS")
        hit(s) == s.src = <<>> /\ ~(s.len < 80) /\ s.obfuscation_hits
        mk(s) == finding(rule,
            "Inline JavaScript uses APIs commonly seen in obfuscated/phishing kit payloads.",
            [pattern_hits |-> s.obfuscation_hits, snippet |-> Min({s.len, 220})])
    IN Returns(MapSelect(soup.scripts, hit, mk))

_js_high_entropy_inline(soup, ctx) ==
    LET rule == BuiltinRule("JS_HIGH_ENTROPY_INLINE")
        hit(s) == s.src = <<>> /\ ~(s.len < 300) /\ ~(s.entropy10 < 52)
        mk(s) == finding(rule,
            "High-entropy inline JS can indicate heavy minification or obfuscation. Use together with other signals.",
            [entropy |-> s.entropy10, snippet |-> Min({s.len, 220})])
    IN Returns(MapSelect(soup.scripts, hit, mk))

_js_localhost_calls(soup, ctx) ==
    LET rule == BuiltinRule("JS_LOCALHOST_CALLS")
        hit(s) == s.src = <<>> /\ ~(s.len < 80) /\ s.localhost_hits
        mk(s) == finding(rule,
            "Credential phishing kits sometimes call localhost/private endpoints to fingerprint devices or steal data.",
            [pattern_hits |-> s.localhost_hits, snippet |-> Min({s.len, 260})])
    IN Returns(MapSelect(soup.scripts, hit, mk))

\* the keys of the resource-domain map, a sequence of [domain, count] items
DictKeys(items) == {items[k].domain : k \in 1..Len(items)}

SuspiciousReasons(d) ==
    LET labels == Split(d, ".")
    IN (IF is_ip_domain(d) THEN {"ip_domain"} ELSE {})
       \cup (IF StartsWith(d, <<"x", "n", "-", "-">>) THEN {"punycode"} ELSE {})
       \cup (IF subdomain_depth(d) >= 3 THEN {"deep_subdomain"} ELSE {})
       \cup (IF labels[Len(labels)] \in _SUSPICIOUS_TLDS THEN {"risky_tld"} ELSE {})


\* _suspicious_domain_patterns appending a finding per reason of a domain
\* instead of one finding per document
SuspiciousDomainPerReason(soup, ctx) ==
    LET rule == BuiltinRule("SUSPICIOUS_DOMAIN_PATTERN")
        domains == DictKeys(ctx.resource_domains)
                   \cup (IF ctx.base_domain # <<>> THEN {ctx.base_domain} ELSE {})
        suspicious == {d \in domains : /\ d # <<>>
                                       /\ ~is_allowlisted(d, ctx.allowlist)
                                       /\ SuspiciousReasons(d) # {}}
        hits == {<<d, r>> \in suspicious \X {"ip_domain", "punycode", "deep_subdomain", "risky_tld"} :
                    r \in SuspiciousReasons(d)}
    IN Returns([k \in 1..Cardinality(hits) |->
                  finding(rule,
                    "Domain patterns often seen in phishing infrastructure (not definitive, but strong signals when combined).",
                    [suspicious_domains |-> suspicious])])

_suspicious_domain_patterns(soup, ctx) ==
    LET rule == BuiltinRule("SUSPICIOUS_DOMAIN_PATTERN")
        domains == DictKeys(ctx.resource_domains)
                   \cup (IF ctx.base_domain # <<>> THEN {ctx.base_domain} ELSE {})
        suspicious == {d \in domains : /\ d # <<>>
                                       /\ ~is_allowlisted(d, ctx.allowlist)
                                       /\ SuspiciousReasons(d) # {}}
    IN Returns(IF suspicious # {}
               THEN << finding(rule,
                    "Domain patterns often seen in phishing infrastructure (not definitive, but strong signals when combined).",
                    [suspicious_domains |-> suspicious]) >>
               ELSE <<>>)

_hidden_iframe(soup, ctx) ==
    LET rule == BuiltinRule("IFRAME_HIDDEN")
        hit(fr) ==
            \/ Contains(Lower(fr.style), <<"d", "i", "s", "p", "l", "a", "y", ":", "n", "o", "n", "e">>)
            \/ Contains(Lower(fr.style),
                        <<"v", "i", "s", "i", "b", "i", "l", "i", "t", "y", ":", "h", "i", "d", "d", "e", "n">>)
            \/ Strip(fr.width) \in {<<"0">>, <<"1">>}
            \/ Strip(fr.height) \in {<<"0">>, <<"1">>}
        mk(fr) == finding(rule,
            "Hidden iframes can be used for covert redirects or loading phishing kit components.",
            [style |-> fr.style, width |-> Strip(fr.width), height |-> Strip(fr.height),
             src |-> fr.src])
    IN Returns(MapSelect(soup.iframes, hit, mk))

(***************************************************************************)
(* Externally supplied rules.  plugins/example_rules.py is the one in the  *)
(* repository; the others are the behaviours a supplied check can have     *)
(* when analyze_html calls it.                                             *)
(***************************************************************************)
_keywords_in_text(soup, ctx) ==
    LET rule == Rule("SOCIAL_ENGINEERING_KEYWORDS", "Social engineering keywords in page text",
                     "medium", 10, Check("_keywords_in_text", <<>>, ""))
    IN Returns(IF soup.keyword_hits = {} THEN <<>>
               ELSE << finding(rule,
                    "Phishing pages often use urgency/verification language to pressure users.",
                    [hits |-> soup.keyword_hits]) >>)

\* a parsed document with no elements: BeautifulSoup("") and soup.clear()
EmptySoup ==
    [forms |-> <<>>, scripts |-> <<>>, metas |-> <<>>, inputs |-> <<>>, iframes |-> <<>>,
     links |-> <<>>, imgs |-> <<>>, anchors |-> <<>>, keyword_hits |-> {}]

\* rule.check(soup, ctx): what the call hands back
CheckResult(rule, soup, ctx) ==
    CASE rule.check.fn = "_form_action_external" -> _form_action_external(soup, ctx)
      [] rule.check.fn = "_form_action_http" -> _form_action_http(soup, ctx)
      [] rule.check.fn = "_external_js_domains" -> _external_js_domains(soup, ctx)
      [] rule.check.fn = "_meta_refresh" -> _meta_refresh(soup, ctx)
      [] rule.check.fn = "_hidden_inputs" -> _hidden_inputs(soup, ctx)
      [] rule.check.fn = "_js_obfuscation_apis" -> _js_obfuscation_apis(soup, ctx)
      [] rule.check.fn = "_js_high_entropy_inline" -> _js_high_entropy_inline(soup, ctx)
      [] rule.check.fn = "_js_localhost_calls" -> _js_localhost_calls(soup, ctx)
      [] rule.check.fn = "_suspicious_domain_patterns" -> _suspicious_domain_patterns(soup, ctx)
      [] rule.check.fn = "_hidden_iframe" -> _hidden_iframe(soup, ctx)
      [] rule.check.fn = "_keywords_in_text" -> _keywords_in_text(soup, ctx)
      [] rule.check.fn = "raises" -> Raises(rule.check.text)
      \* findings.extend(None) raises TypeError inside the try block
      [] rule.check.fn = "returns_none" -> Raises("'NoneType' object is not iterable")
      [] OTHER -> Returns(rule.check.out)

\* the document after rule.check(soup, ctx): a check is handed the mutable soup
SoupAfter(rule, soup) ==
    IF rule.check.fn = "clears_soup" THEN EmptySoup ELSE soup

(***************************************************************************)
(* analyzer.py                                                             *)
(***************************************************************************)
_RULE_MAX_CONTRIBUTION ==
    [JS_HIGH_ENTROPY_INLINE |-> 12, JS_OBFUSCATION_APIS |-> 40, JS_LOCALHOST_CALLS |-> 36]

\* the dict of domain counts after counts[d] = counts.get(d, 0) + 1 for each
\* domain of ds, as [domain, count] items in insertion order
RECURSIVE CountDomains(_, _)
CountDomains(ds, counts) ==
    IF ds = <<>> THEN counts
    ELSE LET d == Head(ds)
             at == {k \in 1..Len(counts) : counts[k].domain = d}
         IN CountDomains(Tail(ds),
                IF at = {} THEN Append(counts, [domain |-> d, count |-> 1])
                ELSE [counts EXCEPT ![Min(at)].count = @ + 1])

\* dict(sorted(counts.items(), key=lambda kv: kv[1], reverse=True))
SortByCount(counts) ==
    LET order == SortedDesc([k \in 1..Len(counts) |-> counts[k].count])
    IN [k \in 1..Len(counts) |-> counts[order[k]]]

\* the domains of the URLs, the empty ones skipped
DomainsOf(urls) ==
    SelectSeq([k \in 1..Len(urls) |-> get_domain(urls[k])], LAMBDA d : d # <<>>)


\* ResourceValues with the (form, action) pair left out of the scan
ResourceValuesWithoutForms(soup) ==
    [k \in 1..Len(soup.scripts) |-> Strip(soup.scripts[k].src)]
    \o [k \in 1..Len(soup.links) |-> Strip(soup.links[k])]
    \o [k \in 1..Len(soup.imgs) |-> Strip(soup.imgs[k])]
    \o [k \in 1..Len(soup.iframes) |-> Strip(soup.iframes[k].src)]
    \o [k \in 1..Len(soup.anchors) |-> Strip(soup.anchors[k])]

\* the stripped attribute values of the six (tag, attr) pairs, in the order
\* of the loop
ResourceValues(soup) ==
    [k \in 1..Len(soup.scripts) |-> Strip(soup.scripts[k].src)]
    \o [k \in 1..Len(soup.links) |-> Strip(soup.links[k])]
    \o [k \in 1..Len(soup.imgs) |-> Strip(soup.imgs[k])]
    \o [k \in 1..Len(soup.iframes) |-> Strip(soup.iframes[k].src)]
    \o [k \in 1..Len(soup.forms) |-> Strip(soup.forms[k].action)]
    \o [k \in 1..Len(soup.anchors) |-> Strip(soup.anchors[k])]

_collect_resource_domains(soup) ==
    SortByCount(CountDomains(
        DomainsOf(SelectSeq(ResourceValues(soup), LAMBDA v : v # <<>>)), <<>>))

\* a value that has the attributes of a Finding
IsFinding(f) == {"rule_id", "weight"} \subseteq DOMAIN f

\* GroupByRule with the groups keyed by rule id and title
RECURSIVE GroupByRuleAndTitle(_, _)
GroupByRuleAndTitle(fs, by_rule) ==
    IF fs = <<>> THEN by_rule
    ELSE LET f == Head(fs)
             at == {k \in 1..Len(by_rule) : /\ by_rule[k].rule_id = f.rule_id
                                            /\ by_rule[k].items[1].title = f.title}
         IN GroupByRuleAndTitle(Tail(fs),
                IF at = {} THEN Append(by_rule, [rule_id |-> f.rule_id, items |-> <<f>>])
                ELSE [by_rule EXCEPT ![Min(at)].items = Append(@, f)])

\* by_rule: the groups of findings per rule_id, in dict insertion order
RECURSIVE GroupByRule(_, _)
GroupByRule(fs, by_rule) ==
    IF fs = <<>> THEN by_rule
    ELSE LET f == Head(fs)
             at == {k \in 1..Len(by_rule) : by_rule[k].rule_id = f.rule_id}
         IN GroupByRule(Tail(fs),
                IF at = {} THEN Append(by_rule, [rule_id |-> f.rule_id, items |-> <<f>>])
                ELSE [by_rule EXCEPT ![Min(at)].items = Append(@, f)])


\* SortByWeight leaving the group in list order
SortByWeightUnsorted(items) == items

\* SortByWeight without reverse=True
SortByWeightAscending(items) ==
    LET order == SortedDesc([k \in 1..Len(items) |-> 0 - items[k].weight])
    IN [k \in 1..Len(items) |-> items[order[k]]]

\* sorted(items, key=lambda x: x.weight, reverse=True)
SortByWeight(items) ==
    LET order == SortedDesc([k \in 1..Len(items) |-> items[k].weight])
    IN [k \in 1..Len(items) |-> items[order[k]]]

\* Contribution without the floor of 1 for the later findings
ContributionWithoutFloor(idx, f) ==
    LET w == Max({0, f.weight})
    IN IF idx = 0 THEN w ELSE w \div 2

\* what the finding at position idx (from 0) of a sorted group adds to contrib
Contribution(idx, f) ==
    LET w == Max({0, f.weight})
    IN IF idx = 0 THEN w ELSE Max({1, w \div 2})

\* GroupContrib without w = max(0, f.weight): the weight is taken as it is
RECURSIVE GroupContribSigned(_, _)
GroupContribSigned(items_sorted, idx) ==
    IF idx >= Len(items_sorted) THEN 0
    ELSE LET w == items_sorted[idx + 1].weight
         IN (IF idx = 0 THEN w ELSE Max({1, w \div 2}))
                + GroupContribSigned(items_sorted, idx + 1)

\* contrib after the loop over items_sorted
RECURSIVE GroupContrib(_, _)
GroupContrib(items_sorted, idx) ==
    IF idx >= Len(items_sorted) THEN 0
    ELSE Contribution(idx, items_sorted[idx + 1]) + GroupContrib(items_sorted, idx + 1)

\* CapContribution with the cap not applied
CapNotApplied(rule_id, contrib) == contrib

\* cap = _RULE_MAX_CONTRIBUTION.get(rule_id); min(cap, contrib) if there is one
CapContribution(rule_id, contrib) ==
    IF rule_id \in DOMAIN _RULE_MAX_CONTRIBUTION
    THEN Min({_RULE_MAX_CONTRIBUTION[rule_id], contrib})
    ELSE contrib

\* per group of by_rule: the sorted items, contrib before and after the cap
GroupScores(findings) ==
    LET by_rule == GroupByRule(findings, <<>>)
    IN [k \in 1..Len(by_rule) |->
            LET items_sorted == SortByWeight(by_rule[k].items)
                contrib == GroupContrib(items_sorted, 0)
            IN [rule_id |-> by_rule[k].rule_id,
                items |-> by_rule[k].items,
                items_sorted |-> items_sorted,
                contrib |-> contrib,
                added |-> CapContribution(by_rule[k].rule_id, contrib)]]

RECURSIVE SumAdded(_)
SumAdded(groups) ==
    IF groups = <<>> THEN 0 ELSE Head(groups).added + SumAdded(Tail(groups))

\* Clamp without the ceiling: return max(0, total)
ClampWithoutCeiling(total) == Max({0, total})

\* return max(0, min(100, total))
Clamp(total) == Max({0, Min({100, total})})

_score_from_findings(findings) == Clamp(SumAdded(GroupScores(findings)))

\* _rating with > for >= at the boundaries
RatingStrictBoundaries(score) ==
    IF score > 80 THEN "high_risk"
    ELSE IF score > 45 THEN "medium_risk"
    ELSE "low_risk"

_rating(score) ==
    IF score >= 80 THEN "high_risk"
    ELSE IF score >= 45 THEN "medium_risk"
    ELSE "low_risk"


\* RuleErrorFinding with the rule's title for str(e) as the description
RuleErrorFindingWithoutText(rule, text) ==
    Finding("RULE_ERROR", <<"Rule error: ", rule.rule_id>>, "low", 1, rule.title,
            [rule_id |-> rule.rule_id])

\* the synthetic finding of the except branch
RuleErrorFinding(rule, text) ==
    Finding("RULE_ERROR", <<"Rule error: ", rule.rule_id>>, "low", 1, text,
            [rule_id |-> rule.rule_id])

\* FindingsAfter with the except branch assigning the list instead of appending
FindingsAfterAssigning(findings, rule, result) ==
    IF result.raises THEN << RuleErrorFinding(rule, result.text) >>
    ELSE findings \o result.out

\* findings after one iteration of the loop over rules
FindingsAfter(findings, rule, result) ==
    IF result.raises THEN Append(findings, RuleErrorFinding(rule, result.text))
    ELSE findings \o result.out

\* RuleList with the supplied rules before the builtin ones
RuleListSuppliedFirst(extra_rules) == extra_rules \o get_builtin_rules

\* the rule list of one analysis
RuleList(extra_rules) == get_builtin_rules \o extra_rules

RuleContext(target, base_url, base_domain, allowlist, resource_domains) ==
    [target |-> target, base_url |-> base_url, base_domain |-> base_domain,
     allowlist |-> allowlist, resource_domains |-> resource_domains]

\* ctx as analyze_html builds it (a base_url of None is the empty string here)
BuildContext(soup, target, base_url, allowlist) ==
    RuleContext(target, base_url,
                IF base_url # <<>> THEN get_domain(base_url) ELSE <<>>,
                {Lower(d) : d \in allowlist},
                _collect_resource_domains(soup))

Report(target, base_url, base_domain, score, rating, findings, stats) ==
    [target |-> target, base_url |-> base_url, base_domain |-> base_domain,
     score |-> score, rating |-> rating, findings |-> findings, stats |-> stats]


(***************************************************************************)
(* plugin_loader.py: load_plugins.  A plugin path is a record of what the  *)
(* loader finds at it: whether it exists and is a file, which of get_rules *)
(* and RULES the module defines, and the values they supply.               *)
(***************************************************************************)
\* a value that is not a Rule
NotARule == [not_a_rule |-> TRUE]

\* isinstance(r, Rule)
IsRule(r) == "rule_id" \in DOMAIN r

\* a value a module supplies as its rules: whether it is a list or tuple,
\* and its entries
Supplied(is_list_or_tuple, items) ==
    [is_list_or_tuple |-> is_list_or_tuple, items |-> items]

\* _validate_rules with the test of the entries left out
ValidateRulesShapeOnly(obj) ==
    IF ~obj.is_list_or_tuple THEN "TypeError" ELSE ""

\* _validate_rules(obj, path): the exception it raises, "" if none
_validate_rules(obj) ==
    IF ~obj.is_list_or_tuple THEN "TypeError"
    ELSE IF \E k \in 1..Len(obj.items) : ~IsRule(obj.items[k]) THEN "TypeError"
    ELSE ""

\* what a call hands back: the exception raised ("" if none) and the value
Outcome(error, value) == [error |-> error, value |-> value]

\* _extract_rules(module, path)
_extract_rules(module) ==
    IF "get_rules" \in module.exports
    THEN Outcome(_validate_rules(module.get_rules), module.get_rules.items)
    ELSE IF "RULES" \in module.exports
    THEN Outcome(_validate_rules(module.RULES), module.RULES.items)
    ELSE Outcome("AttributeError", <<>>)

\* one iteration of the loop of load_plugins over the path p
LoadOne(p) ==
    IF ~p.exists THEN Outcome("FileNotFoundError", <<>>)
    ELSE IF ~p.is_file THEN Outcome("ValueError", <<>>)
    ELSE _extract_rules(p)

(***************************************************************************)
(* Bounds of the model.                                                    *)
(***************************************************************************)
\* forms in a document
MaxForms == 2

\* externally supplied rules in one analysis
MaxExtra == 2


\* plugin paths on the command line
MaxPlugins == 2

\* HTML files under the input path of a scan
MaxFiles == 2

\* findings in a list handed to _score_from_findings directly
MaxLen == 3

\* repetitions of one finding in a list handed to _score_from_findings
MaxRepeat == 13

SeqsUpTo(S, n) == UNION {[1..k -> S] : k \in 0..n}

(***************************************************************************)
(* The inputs: documents (as BeautifulSoup parses them), base URLs,        *)
(* allowlists and externally supplied rules.                               *)
(***************************************************************************)
Form(action, method) == [action |-> action, method |-> method]

Script(src, len, obfuscation_hits, localhost_hits, entropy10) ==
    [src |-> src, len |-> len, obfuscation_hits |-> obfuscation_hits,
     localhost_hits |-> localhost_hits, entropy10 |-> entropy10]

Meta(http_equiv, content) == [http_equiv |-> http_equiv, content |-> content]

Input(type, name, id, value_len) ==
    [type |-> type, name |-> name, id |-> id, value_len |-> value_len]

Iframe(style, width, height, src) ==
    [style |-> style, width |-> width, height |-> height, src |-> src]

Forms ==
    { Form(<<>>, <<>>),
      Form(<<"h", "t", "t", "p", ":", "/", "/", "e", "v", "i", "l", ".", "e", "x", "a", "m", "p", "l", "e", "/", "c", "o", "l", "l", "e", "c", "t">>, <<"P", "O", "S", "T">>),
      Form(<<" ", "h", "t", "t", "p", "s", ":", "/", "/", "A", ".", "i", "o", "/", "i", "n", " ">>, <<"p", "o", "s", "t">>),
      Form(<<"h", "t", "t", "p", "s", ":", "/", "/", "b", ".", "i", "o", "/", "p">>, <<>>) }

\* the rest of a document, beside its forms
Rests ==
    { \* nothing else
      [EmptySoup EXCEPT !.forms = <<>>],
      \* an inline script of 81 characters calling eval(...), an iframe of width 0
      [EmptySoup EXCEPT
         !.scripts = << Script(<<>>, 81, TRUE, FALSE, 41) >>,
         !.iframes = << Iframe(<<>>, <<"0">>, <<>>, <<>>) >>],
      \* a hit of every other builtin rule
      [EmptySoup EXCEPT
         !.scripts = << Script(<<>>, 400, TRUE, TRUE, 55),
                        Script(<<"/", "/", "x", ".", "t", "k", "/", "s", ".", "j", "s">>, 0, FALSE, FALSE, 0),
                        Script(<<>>, 90, TRUE, FALSE, 40) >>,
         !.metas = << Meta(<<"R", "e", "f", "r", "e", "s", "h">>, <<"0", ";", "U", "R", "L", "=", "'", "h", "t", "t", "p", ":", "/", "/", "x", ".", "t", "k", "/", "'">>),
                      Meta(<<"r", "e", "f", "r", "e", "s", "h">>, <<"5", ";", " ", "u", "r", "l", "=", "m", "a", "i", "l", "t", "o", ":", "x", "@", "b", ".", "i", "o">>) >>,
         !.inputs = << Input(<<"H", "i", "d", "d", "e", "n">>, <<"a", "u", "t", "h", "T", "o", "k", "e", "n">>, <<>>, 121) >>,
         !.iframes = << Iframe(<<"D", "i", "s", "p", "l", "a", "y", ":", "N", "o", "n", "e">>, <<>>, <<>>, <<"h", "t", "t", "p", "s", ":", "/", "/", "b", ".", "i", "o", "/", "f">>) >>,
         !.keyword_hits = {"urgent"}],
      \* a meta refresh whose target does not parse, and elements that hit nothing
      [EmptySoup EXCEPT
         !.scripts = << Script(<<>>, 79, TRUE, TRUE, 60),
                        Script(<<"/", "s", "t", "a", "t", "i", "c", "/", "a", "p", "p", ".", "j", "s">>, 0, FALSE, FALSE, 0) >>,
         !.metas = << Meta(<<"r", "e", "f", "r", "e", "s", "h">>, <<"0", ";", " ", "u", "r", "l", "=", "/", "h", "o", "m", "e">>),
                      Meta(<<"r", "e", "f", "r", "e", "s", "h">>, <<"0", ";", "u", "r", "l", "=", "h", "t", "t", "p", ":", "/", "/", "[", "x">>) >>,
         !.inputs = << Input(<<"h", "i", "d", "d", "e", "n">>, <<>>, <<"c", "s", "r", "f">>, 200),
                       Input(<<"t", "e", "x", "t">>, <<"n", "e", "x", "t">>, <<>>, 0) >>,
         !.iframes = << Iframe(<<>>, <<"3", "0", "0">>, <<"2">>, <<"h", "t", "t", "p", "s", ":", "/", "/", "A", ".", "i", "o", "/", "w">>) >>,
         !.links = << <<"h", "t", "t", "p", "s", ":", "/", "/", "a", ".", "i", "o", "/", "s", ".", "c", "s", "s">>, <<"m", "a", "i", "l", "t", "o", ":", "x", "@", "b", ".", "i", "o">> >>,
         !.imgs = << <<"h", "t", "t", "p", "s", ":", "/", "/", "1", ".", "2", ".", "3", ".", "4", "/", "i", ".", "p", "n", "g">>, <<>> >>,
         !.anchors = << <<"h", "t", "t", "p", "s", ":", "/", "/", "b", ".", "i", "o", "/">>, <<"h", "t", "t", "p", "s", ":", "/", "/", "b", ".", "i", "o", "/", "q">>, <<"#", "t", "o", "p">> >>] }

Docs == {[rest EXCEPT !.forms = fs] : fs \in SeqsUpTo(Forms, MaxForms), rest \in Rests}

\* a base URL on a domain with a deep subdomain and a risky TLD
SuspiciousBaseUrl == <<"h", "t", "t", "p", ":", "/", "/", "a", ".", "b", ".", "c", ".", "d", ".", "t", "k", ":", "8", "0", "8", "0", "/", "l", "o", "g", "i", "n">>

\* None (the empty string here) or a URL
BaseUrls == { <<>>, <<"h", "t", "t", "p", "s", ":", "/", "/", "a", ".", "i", "o">>, <<"h", "t", "t", "p", "s", ":", "/", "/", "a", "c", "c", "o", "u", "n", "t", "s", ".", "e", "x", "a", "m", "p", "l", "e", ".", "c", "o", "m">> }

Allowlists == { {}, {<<"*", ".", "B", ".", "i", "o">>}, {<<"a", "c", "c", "o", "u", "n", "t", "s", ".", "e", "x", "a", "m", "p", "l", "e", ".", "c", "o", "m">>, <<"x", ".", "t", "k">>} }


\* the URLs handed to get_domain
Urls ==
    { <<>>,
      <<"/", "p">>,
      <<"e", "v", "i", "l", ".", "e", "x", "a", "m", "p", "l", "e", "/", "c", "o", "l", "l", "e", "c", "t">>,
      <<"m", "a", "i", "l", "t", "o", ":", "x", "@", "b", ".", "i", "o">>,
      <<"/", "/", "x", ".", "t", "k", "/", "s", ".", "j", "s">>,
      <<"h", "t", "t", "p", "s", ":", "/", "/", "b", ".", "i", "o">>,
      <<" ", "h", "t", "t", "p", "s", ":", "/", "/", "A", ".", "i", "o", "/", "i", "n", " ">>,
      <<"h", "t", "t", "p", ":", "/", "/", "e", "v", "i", "l", ".", "e", "x", "a", "m", "p", "l", "e", "/", "c", "o", "l", "l", "e", "c", "t">>,
      <<"H", "T", "T", "P", ":", "/", "/", "u", ":", "p", "@", "A", ".", "i", "o", ":", "8", "0", "/", "x">>,
      <<"h", "t", "t", "p", ":", "/", "/", "a", ".", "i", "o", "@", "b", ".", "i", "o", "/">>,
      <<"h", "t", "t", "p", ":", "/", "/", "u", "@", "a", ".", "i", "o", "@", "b", ".", "i", "o", "/">>,
      <<"h", "t", "t", "p", ":", "/", "/", "1", ".", "2", ".", "3", ".", "4", ":", "8", "0", "8", "0", "/">>,
      <<"h", "t", "t", "p", ":", "/", "/", "[", ":", ":", "1", "]", ":", "8", "0", "/">>,
      <<"h", "t", "t", "p", ":", "/", "/", "[", "x">>,
      <<"h", "t", "t", "p", ":", "/", "/", "@", "/">>,
      <<"h", "t", "t", "p", "s", ":", "/", "/", "b", ".", "i", "o", "?", "x", "=", "/", "@", "a", ".", "i", "o">> }


\* the domains handed to is_allowlisted
AllowDomains ==
    { <<>>, <<"e", "x", "a", "m", "p", "l", "e", ".", "c", "o", "m">>, <<"E", "x", "a", "m", "p", "l", "e", ".", "C", "O", "M">>, <<"s", "u", "b", ".", "e", "x", "a", "m", "p", "l", "e", ".", "c", "o", "m">>, <<"a", ".", "S", "u", "b", ".", "e", "x", "a", "m", "p", "l", "e", ".", "c", "o", "m">>,
      <<"e", "v", "i", "l", ".", "c", "o", "m">>, <<"n", "o", "t", "e", "x", "a", "m", "p", "l", "e", ".", "c", "o", "m">>, <<"e", "x", "a", "m", "p", "l", "e", ".", "c", "o", "m", ".", "e", "v", "i", "l", ".", "c", "o", "m">>, <<"c", "o", "m">> }

\* the allowlists handed to is_allowlisted
AllowSets ==
    { {}, {<<"e", "x", "a", "m", "p", "l", "e", ".", "c", "o", "m">>}, {<<"E", "x", "a", "m", "p", "l", "e", ".", "c", "o", "m">>}, {<<"*", ".", "e", "x", "a", "m", "p", "l", "e", ".", "c", "o", "m">>}, {<<"*", ".", "E", "x", "a", "m", "p", "l", "e", ".", "C", "O", "M">>},
      {<<"*", ".">>}, {<<>>}, {<<"*", ".", "c", "o", "m">>, <<"e", "v", "i", "l", ".", "c", "o", "m">>}, {<<"*", "e", "x", "a", "m", "p", "l", "e", ".", "c", "o", "m">>},
      {<<"s", "u", "b", ".", "e", "x", "a", "m", "p", "l", "e", ".", "c", "o", "m">>, <<"*", ".", "e", "v", "i", "l", ".", "c", "o", "m">>}, {<<".", "e", "x", "a", "m", "p", "l", "e", ".", "c", "o", "m">>}, {<<"*", ".", "s", "u", "b", ".", "e", "x", "a", "m", "p", "l", "e", ".", "c", "o", "m">>} }


\* a Rule of a plugin
PluginRule(rule_id) == Rule(rule_id, "A plugin rule", "low", 5, Check("returns", <<>>, ""))

\* what is found at a plugin path
PluginPath(exists, is_file, exports, get_rules, RULES) ==
    [exists |-> exists, is_file |-> is_file, exports |-> exports,
     get_rules |-> get_rules, RULES |-> RULES]

NoRules == Supplied(FALSE, <<>>)

\* the plugin paths of the command line
PluginPaths ==
    { \* no such path
      PluginPath(FALSE, FALSE, {}, NoRules, NoRules),
      \* a directory
      PluginPath(TRUE, FALSE, {}, NoRules, NoRules),
      \* a module that defines neither get_rules nor RULES
      PluginPath(TRUE, TRUE, {}, NoRules, NoRules),
      \* get_rules() returns a list of one Rule
      PluginPath(TRUE, TRUE, {"get_rules"}, Supplied(TRUE, << PluginRule("PLUGIN_A") >>), NoRules),
      \* RULES is a tuple of two Rules
      PluginPath(TRUE, TRUE, {"RULES"}, NoRules,
                 Supplied(TRUE, << PluginRule("PLUGIN_B"), PluginRule("PLUGIN_C") >>)),
      \* RULES is an empty list
      PluginPath(TRUE, TRUE, {"RULES"}, NoRules, Supplied(TRUE, <<>>)),
      \* RULES is a generator of Rules
      PluginPath(TRUE, TRUE, {"RULES"}, NoRules, Supplied(FALSE, << PluginRule("PLUGIN_D") >>)),
      \* get_rules() returns a list with an entry that is not a Rule
      PluginPath(TRUE, TRUE, {"get_rules"},
                 Supplied(TRUE, << PluginRule("PLUGIN_E"), NotARule >>), NoRules),
      \* get_rules() returns a dict, RULES is a list of one Rule
      PluginPath(TRUE, TRUE, {"get_rules", "RULES"}, Supplied(FALSE, <<>>),
                 Supplied(TRUE, << PluginRule("PLUGIN_F") >>)),
      \* get_rules() returns a list of one Rule, RULES is not a list
      PluginPath(TRUE, TRUE, {"get_rules", "RULES"}, Supplied(TRUE, << PluginRule("PLUGIN_G") >>),
                 Supplied(FALSE, <<>>)) }

\* a value that is not a Finding
NotAFinding == [not_a_finding |-> TRUE]

\* a finding as an externally supplied check may build it
SuppliedFinding(rule_id, weight) ==
    Finding(rule_id, <<"Supplied rule">>, "low", weight, "", [supplied |-> TRUE])

ExternalRules ==
    { Rule("SOCIAL_ENGINEERING_KEYWORDS", "Social engineering keywords in page text",
           "medium", 10, Check("_keywords_in_text", <<>>, "")),
      Rule("PLUGIN_RAISES", "A check that raises", "low", 5,
           Check("raises", <<>>, "plugin failure")),
      Rule("PLUGIN_NONE", "A check that returns None", "low", 5,
           Check("returns_none", <<>>, "")),
      Rule("PLUGIN_REUSES_ID", "A check that reuses a builtin id", "high", 30,
           Check("returns", << SuppliedFinding("JS_HIGH_ENTROPY_INLINE", 30),
                               SuppliedFinding("PLUGIN_REUSES_ID", -3) >>, "")),
      Rule("PLUGIN_MALFORMED", "A check that returns no findings", "low", 5,
           Check("returns", << NotAFinding >>, "")),
      Rule("PLUGIN_CLEARS", "A check that clears the document", "low", 5,
           Check("clears_soup", <<>>, "")) }

\* the documents analysed with externally supplied rules
PluginDocs ==
    {d \in Docs : d.forms \in {<<>>, << Form(<<"h", "t", "t", "p", ":", "/", "/", "e", "v", "i", "l", ".", "e", "x", "a", "m", "p", "l", "e", "/", "c", "o", "l", "l", "e", "c", "t">>, <<"P", "O", "S", "T">>) >>}}

\* the findings lists handed to _score_from_findings directly
PoolFindings ==
    {SuppliedFinding(id, w) :
        id \in {"JS_HIGH_ENTROPY_INLINE", "JS_OBFUSCATION_APIS", "SUSPICIOUS_HIDDEN_INPUTS"},
        w \in {-3, 0, 7, 300}}

\* a finding of a builtin rule, by finding(rule=...)
BuiltinFinding(rule_id) == finding(BuiltinRule(rule_id), "", [supplied |-> FALSE])

BuiltinIds(severities) ==
    {get_builtin_rules[k].rule_id : k \in {j \in 1..Len(get_builtin_rules) :
                                            get_builtin_rules[j].severity \in severities}}

\* two findings of two different high-severity builtin rules
HighPairs ==
    {<<BuiltinFinding(p[1]), BuiltinFinding(p[2])>> :
        p \in {q \in BuiltinIds({"high"}) \X BuiltinIds({"high"}) : q[1] # q[2]}}

\* one finding of a low-severity builtin rule, repeated
RepeatedLows ==
    {[k \in 1..n |-> BuiltinFinding(id)] : id \in BuiltinIds({"low"}), n \in 1..MaxRepeat}

FindingLists == SeqsUpTo(PoolFindings, MaxLen) \cup HighPairs \cup RepeatedLows

(***************************************************************************)
(* The state machine.  entry is the function that was called; pc is the    *)
(* position in it.                                                         *)
(***************************************************************************)
VARIABLES
    call,         \* a call of a function of utils: its arguments and what it returned
    entry,        \* the function that was called
    pc,           \* position: start, rules, score, scored, rate, rated, done, raised
    html,         \* analyze_html: the document
    base_url,     \* analyze_html: the base URL
    allowlist,    \* analyze_html: the allowlist
    extra_rules,  \* analyze_html: the externally supplied rules
    soup,         \* the parsed document the checks are handed
    ctx,          \* the RuleContext the checks are handed
    rules,        \* the rule list of the loop
    idx,          \* the position of the loop in rules (from 1)
    findings,     \* the findings list
    calls,        \* per call of a check so far: the rule's position, id and result
    groups,       \* _score_from_findings: per rule_id group, contrib before and after the cap
    total,        \* _score_from_findings: total
    score,        \* the score
    rating,       \* the rating
    report        \* the Report analyze_html returned, or NoReport

vars == <<call, entry, pc, html, base_url, allowlist, extra_rules, soup, ctx, rules, idx,
          findings, calls, groups, total, score, rating, report>>

NoReport == [returned |-> FALSE]

NoCall == [fn |-> "none"]

NoContext == RuleContext("<memory>", <<>>, <<>>, {}, <<>>)

\* the locals of analyze_html and _score_from_findings before they are assigned
InitLocals ==
    /\ soup = EmptySoup
    /\ ctx = NoContext
    /\ rules = <<>>
    /\ idx = 1
    /\ calls = <<>>
    /\ groups = <<>>
    /\ total = 0
    /\ rating = ""
    /\ report = NoReport

\* a call analyze_html(html, base_url=..., allowlist=..., extra_rules=...)
InitAnalyze ==
    /\ entry = "analyze_html"
    /\ pc = "start"
    /\ \/ /\ html \in Docs
          /\ base_url \in BaseUrls
          /\ allowlist \in Allowlists
          /\ extra_rules = <<>>
       \/ /\ html \in {d \in Docs : d.forms = <<>>}
          /\ base_url = SuspiciousBaseUrl
          /\ allowlist \in Allowlists
          /\ extra_rules = <<>>
       \/ /\ html \in PluginDocs
          /\ base_url = <<"h", "t", "t", "p", "s", ":", "/", "/", "a", "c", "c", "o", "u", "n", "t", "s", ".", "e", "x", "a", "m", "p", "l", "e", ".", "c", "o", "m">>
          /\ allowlist = {}
          /\ extra_rules \in SeqsUpTo(ExternalRules, MaxExtra) \ {<<>>}
    /\ findings = <<>>
    /\ score = 0
    /\ call = NoCall
    /\ InitLocals

\* a call _score_from_findings(findings)
InitScore ==
    /\ entry = "_score_from_findings"
    /\ pc = "score"
    /\ findings \in FindingLists
    /\ html = EmptySoup /\ base_url = <<>> /\ allowlist = {} /\ extra_rules = <<>>
    /\ score = 0
    /\ call = NoCall
    /\ InitLocals

\* a call _rating(score)
InitRating ==
    /\ entry = "_rating"
    /\ pc = "rate"
    /\ score \in 0..100
    /\ html = EmptySoup /\ base_url = <<>> /\ allowlist = {} /\ extra_rules = <<>>
    /\ findings = <<>>
    /\ call = NoCall
    /\ InitLocals


\* the state of analyze_html, _score_from_findings and _rating when none of
\* them is called
InitIdle ==
    /\ html = EmptySoup /\ base_url = <<>> /\ allowlist = {} /\ extra_rules = <<>>
    /\ findings = <<>>
    /\ score = 0
    /\ InitLocals

\* a call get_domain(url)
InitGetDomain ==
    /\ entry = "get_domain"
    /\ pc = "call"
    /\ call \in {[fn |-> "get_domain", url |-> u, result |-> <<>>] : u \in Urls}
    /\ InitIdle


\* a call is_allowlisted(domain, allowlist)
InitIsAllowlisted ==
    /\ entry = "is_allowlisted"
    /\ pc = "call"
    /\ call \in {[fn |-> "is_allowlisted", domain |-> d, allowlist |-> a, allowed |-> FALSE] :
                    d \in AllowDomains, a \in AllowSets}
    /\ InitIdle


\* a run of main: the command, the --plugin paths, the number of HTML files
\* under the input path (scan) and whether the fetch succeeds (scan-url);
\* then the locals of main and load_plugins: the position i in the paths,
\* the rules list, whether load_plugins returned, extra_rules, the
\* extra_rules each analysed document was analysed with, the exception raised
InitMain ==
    /\ entry = "main"
    /\ pc = "main"
    /\ call \in {[fn |-> "main", cmd |-> c, plugin |-> ps, files |-> n, fetch_ok |-> ok,
                  i |-> 1, rules |-> <<>>, loaded |-> FALSE, extra_rules |-> <<>>,
                  analyzed |-> <<>>, error |-> ""] :
                    c \in {"scan", "scan-url"}, ps \in SeqsUpTo(PluginPaths, MaxPlugins),
                    n \in 0..MaxFiles, ok \in BOOLEAN}
    /\ (call.cmd = "scan" => call.fetch_ok)
    /\ (call.cmd = "scan-url" => call.files = 1)
    /\ InitIdle

Init == InitAnalyze \/ InitScore \/ InitRating \/ InitGetDomain \/ InitIsAllowlisted \/ InitMain

\* analyze_html up to the loop: parse, build the context and the rule list
Prepare ==
    /\ pc = "start"
    /\ soup' = html
    /\ ctx' = BuildContext(html, "<memory>", base_url, allowlist)
    /\ findings' = <<>>
    /\ rules' = RuleList(extra_rules)
    /\ idx' = 1
    /\ pc' = "rules"
    /\ UNCHANGED <<call, entry, html, base_url, allowlist, extra_rules, calls, groups, total,
                   score, rating, report>>

\* the record of one call of a check: the rule's position and id, and what
\* the call handed back
CallOf(i, rule, result) ==
    [idx |-> i, rule_id |-> rule.rule_id, raises |-> result.raises,
     out |-> result.out, text |-> result.text]

\* one iteration of the loop over rules: the check is called; its findings
\* are added, or the RULE_ERROR finding if it raised
RunRule ==
    /\ pc = "rules"
    /\ idx <= Len(rules)
    /\ calls' = Append(calls, CallOf(idx, rules[idx], CheckResult(rules[idx], soup, ctx)))
    /\ findings' = FindingsAfter(findings, rules[idx], calls'[idx])
    /\ soup' = SoupAfter(rules[idx], soup)
    /\ idx' = idx + 1
    /\ pc' = IF idx = Len(rules) THEN "score" ELSE "rules"
    /\ UNCHANGED <<call, entry, html, base_url, allowlist, extra_rules, ctx, rules, groups, total,
                   score, rating, report>>

\* _score_from_findings on a list of Findings
Score ==
    /\ pc = "score"
    /\ \A k \in 1..Len(findings) : IsFinding(findings[k])
    /\ groups' = GroupScores(findings)
    /\ total' = SumAdded(groups')
    /\ score' = _score_from_findings(findings)
    /\ pc' = "scored"
    /\ UNCHANGED <<call, entry, html, base_url, allowlist, extra_rules, soup, ctx, rules, idx,
                   findings, calls, rating, report>>

\* _score_from_findings on a list that holds a value without rule_id:
\* f.rule_id raises AttributeError, which nothing catches
ScoreRaises ==
    /\ pc = "score"
    /\ \E k \in 1..Len(findings) : ~IsFinding(findings[k])
    /\ pc' = "raised"
    /\ UNCHANGED <<call, entry, html, base_url, allowlist, extra_rules, soup, ctx, rules, idx,
                   findings, calls, groups, total, score, rating, report>>

\* the counts of the stats map
Stats(doc, resource_domains) ==
    [forms |-> Len(doc.forms), inputs |-> Len(doc.inputs), scripts |-> Len(doc.scripts),
     iframes |-> Len(doc.iframes), resource_domains |-> resource_domains]

\* analyze_html after the score: the rating and the Report
Finish ==
    /\ entry = "analyze_html"
    /\ pc = "scored"
    /\ rating' = _rating(score)
    /\ report' = Report("<memory>", base_url, ctx.base_domain, score, _rating(score),
                        SortByWeight(findings), Stats(soup, ctx.resource_domains))
    /\ pc' = "done"
    /\ UNCHANGED <<call, entry, html, base_url, allowlist, extra_rules, soup, ctx, rules, idx,
                   findings, calls, groups, total, score>>

\* _rating(score)
Rate ==
    /\ pc = "rate"
    /\ rating' = _rating(score)
    /\ pc' = "rated"
    /\ UNCHANGED <<call, entry, html, base_url, allowlist, extra_rules, soup, ctx, rules, idx,
                   findings, calls, groups, total, score, report>>


\* get_domain(url) returns
GetDomain ==
    /\ entry = "get_domain"
    /\ pc = "call"
    /\ call' = [call EXCEPT !.result = get_domain(call.url)]
    /\ pc' = "returned"
    /\ UNCHANGED <<entry, html, base_url, allowlist, extra_rules, soup, ctx, rules, idx,
                   findings, calls, groups, total, score, rating, report>>


\* is_allowlisted(domain, allowlist) returns
IsAllowlisted ==
    /\ entry = "is_allowlisted"
    /\ pc = "call"
    /\ call' = [call EXCEPT !.allowed = is_allowlisted(call.domain, call.allowlist)]
    /\ pc' = "returned"
    /\ UNCHANGED <<entry, html, base_url, allowlist, extra_rules, soup, ctx, rules, idx,
                   findings, calls, groups, total, score, rating, report>>


\* where main goes after load_plugins, or without it
AfterLoad(cmd) == IF cmd = "scan" THEN "analyze_path" ELSE "fetch_html"

\* main: extra_rules = load_plugins(args.plugin) if args.plugin else None
MainStart ==
    /\ entry = "main"
    /\ pc = "main"
    /\ pc' = IF call.plugin # <<>> THEN "load_plugins" ELSE AfterLoad(call.cmd)
    /\ UNCHANGED <<call, entry, html, base_url, allowlist, extra_rules, soup, ctx, rules, idx,
                   findings, calls, groups, total, score, rating, report>>

\* the locals of main after one iteration of load_plugins handed back out
LoadedOne(c, out) ==
    IF out.error # "" THEN [c EXCEPT !.error = out.error]
    ELSE IF c.i = Len(c.plugin)
    THEN [c EXCEPT !.rules = @ \o out.value, !.i = @ + 1, !.loaded = TRUE,
                   !.extra_rules = c.rules \o out.value]
    ELSE [c EXCEPT !.rules = @ \o out.value, !.i = @ + 1]

\* one iteration of the loop of load_plugins: the path is checked, the
\* module loaded and its rules validated and added; an exception leaves
\* load_plugins and main; after the last path load_plugins returns rules
LoadPlugin ==
    /\ entry = "main"
    /\ pc = "load_plugins"
    /\ call.i <= Len(call.plugin)
    /\ call' = LoadedOne(call, LoadOne(call.plugin[call.i]))
    /\ pc' = IF call'.error # "" THEN "main_raised"
             ELSE IF call'.loaded THEN AfterLoad(call.cmd)
             ELSE "load_plugins"
    /\ UNCHANGED <<entry, html, base_url, allowlist, extra_rules, soup, ctx, rules, idx,
                   findings, calls, groups, total, score, rating, report>>

\* scan: one iteration of the loop of analyze_path, analyze_html on the next
\* file with extra_rules; after the last file (or with none) main returns
AnalyzePath ==
    /\ entry = "main"
    /\ pc = "analyze_path"
    /\ IF Len(call.analyzed) < call.files
       THEN /\ call' = [call EXCEPT !.analyzed = Append(@, call.extra_rules)]
            /\ pc' = "analyze_path"
       ELSE /\ call' = call
            /\ pc' = "main_returned"
    /\ UNCHANGED <<entry, html, base_url, allowlist, extra_rules, soup, ctx, rules, idx,
                   findings, calls, groups, total, score, rating, report>>

\* scan-url: fetch_html returns the document or raises
FetchHtml ==
    /\ entry = "main"
    /\ pc = "fetch_html"
    /\ IF call.fetch_ok
       THEN /\ call' = call
            /\ pc' = "analyze_html"
       ELSE /\ call' = [call EXCEPT !.error = "ConnectionError"]
            /\ pc' = "main_raised"
    /\ UNCHANGED <<entry, html, base_url, allowlist, extra_rules, soup, ctx, rules, idx,
                   findings, calls, groups, total, score, rating, report>>

\* scan-url: analyze_html on the fetched document with extra_rules
AnalyzeUrl ==
    /\ entry = "main"
    /\ pc = "analyze_html"
    /\ call' = [call EXCEPT !.analyzed = Append(@, call.extra_rules)]
    /\ pc' = "main_returned"
    /\ UNCHANGED <<entry, html, base_url, allowlist, extra_rules, soup, ctx, rules, idx,
                   findings, calls, groups, total, score, rating, report>>

Next == Prepare \/ RunRule \/ Score \/ ScoreRaises \/ Finish \/ Rate \/ GetDomain \/ IsAllowlisted
        \/ MainStart \/ LoadPlugin \/ AnalyzePath \/ FetchHtml \/ AnalyzeUrl

Spec == Init /\ [][Next]_vars

(***************************************************************************)
(* Properties.                                                             *)
(***************************************************************************)
\* the loop over rules of analyze_html has ended
LoopEnded == entry = "analyze_html" /\ pc \in {"score", "scored", "done", "raised"}

\* _score_from_findings has returned
Scored == pc \in {"scored", "done"}

\* how often f occurs in the sequence s
Count(f, s) == Cardinality({k \in 1..Len(s) : s[k] = f})

\* C1: _score_from_findings returns an integer in [0,100] for every findings
\* list (any rule ids, any integer weights), and so the score of every Report
\* analyze_html returns is in [0,100].
C1_ScoreInRange ==
    /\ Scored => score \in 0..100
    /\ report # NoReport => report.score \in 0..100

\* C1 witness: a list with a negative weight whose total exceeds 100 was scored.
C1_Witness ==
    /\ pc = "scored"
    /\ total > 100
    /\ score = 100
    /\ \E k \in 1..Len(findings) : findings[k].weight < 0

\* C2: the rating is a function of the score alone: high_risk iff score >= 80,
\* medium_risk iff 45 <= score <= 79, low_risk iff score <= 44, for _rating on
\* every score in 0..100 and for the rating of every Report.
C2_RatingOfScore ==
    /\ pc \in {"rated", "done"} =>
          /\ (rating = "high_risk") <=> (score >= 80)
          /\ (rating = "medium_risk") <=> (45 <= score /\ score <= 79)
          /\ (rating = "low_risk") <=> (score <= 44)
    /\ report # NoReport =>
          /\ report.score = score
          /\ report.rating = rating

\* C2 witness: _rating was applied to the boundary score 80.
C2_Witness == pc = "rated" /\ score = 80 /\ rating = "high_risk"

\* the weights of the findings of fs that carry rule_id, in list order
WeightsOf(fs, rule_id) ==
    LET sel == SelectSeq(fs, LAMBDA f : f.rule_id = rule_id)
    IN [k \in 1..Len(sel) |-> sel[k].weight]

RECURSIVE SumHalves(_)
SumHalves(ws) ==
    IF ws = <<>> THEN 0 ELSE Max({1, Head(ws) \div 2}) + SumHalves(Tail(ws))

\* C3: a group of findings that share a rule_id, all of weight >= 0, is taken
\* in descending weight order, and its contribution before the cap is the
\* full weight of the heaviest finding plus max(1, weight div 2) for each
\* other finding of the group.
C3_GroupContribution ==
    Scored =>
        \A g \in 1..Len(groups) :
            LET ws == WeightsOf(findings, groups[g].rule_id)
                sorted == groups[g].items_sorted
            IN (\A k \in 1..Len(ws) : ws[k] >= 0) =>
                  /\ \A k \in 1..(Len(sorted) - 1) : sorted[k].weight >= sorted[k + 1].weight
                  /\ \A f \in Range(groups[g].items) :
                        Count(f, sorted) = Count(f, groups[g].items)
                  /\ groups[g].contrib =
                        Max(Range(ws)) + SumHalves(ws) - Max({1, Max(Range(ws)) \div 2})

\* C3 witness: a group of three findings, not in descending order in the
\* list, with a zero and an odd weight, was scored.
C3_Witness ==
    /\ pc = "scored"
    /\ \E g \in 1..Len(groups) :
          LET ws == WeightsOf(findings, groups[g].rule_id)
          IN /\ Len(ws) = 3
             /\ ws[1] < ws[3]
             /\ Range(ws) = {0, 7, 300}
             /\ groups[g].contrib = 304

\* C4: the amount a group with a capped rule id (JS_HIGH_ENTROPY_INLINE 12,
\* JS_OBFUSCATION_APIS 40, JS_LOCALHOST_CALLS 36) adds to the total never
\* exceeds the cap; a group with any other rule id adds its contribution
\* uncapped; the total is the sum of what the groups add.
C4_CapPerRule ==
    Scored =>
        /\ \A g \in 1..Len(groups) :
              LET id == groups[g].rule_id
              IN /\ id = "JS_HIGH_ENTROPY_INLINE" => groups[g].added <= 12
                 /\ id = "JS_OBFUSCATION_APIS" => groups[g].added <= 40
                 /\ id = "JS_LOCALHOST_CALLS" => groups[g].added <= 36
                 /\ id \notin {"JS_HIGH_ENTROPY_INLINE", "JS_OBFUSCATION_APIS",
                               "JS_LOCALHOST_CALLS"} => groups[g].added = groups[g].contrib
                 /\ groups[g].added <= groups[g].contrib
        /\ total = SumAdded(groups)

\* C4 witness: a capped group whose contribution exceeds its cap
\* was scored, beside an uncapped group that adds more than 40.
C4_Witness ==
    /\ Scored
    /\ \E g \in 1..Len(groups) :
          /\ groups[g].rule_id \in {"JS_HIGH_ENTROPY_INLINE", "JS_OBFUSCATION_APIS"}
          /\ groups[g].contrib > 40
          /\ groups[g].added \in {12, 40}
    /\ \E g \in 1..Len(groups) :
          /\ groups[g].rule_id = "SUSPICIOUS_HIDDEN_INPUTS"
          /\ groups[g].added > 40


\* f is the finding the engine makes of a failure of the rule rule_id
IsRuleError(f, rule_id) ==
    /\ f.rule_id = "RULE_ERROR"
    /\ f.severity = "low"
    /\ f.weight = 1
    /\ f.title = <<"Rule error: ", rule_id>>
    /\ f.evidence.rule_id = rule_id

\* fs is, call by call, what the calls cs handed back: the returned findings
\* of a call that returned, one RULE_ERROR finding for a call that raised
RECURSIVE MatchesCalls(_, _)
MatchesCalls(cs, fs) ==
    IF cs = <<>> THEN fs = <<>>
    ELSE IF Head(cs).raises
    THEN /\ fs # <<>>
         /\ IsRuleError(Head(fs), Head(cs).rule_id)
         /\ MatchesCalls(Tail(cs), Tail(fs))
    ELSE /\ Len(fs) >= Len(Head(cs).out)
         /\ SubSeq(fs, 1, Len(Head(cs).out)) = Head(cs).out
         /\ MatchesCalls(Tail(cs), SubSeq(fs, Len(Head(cs).out) + 1, Len(fs)))

\* every element of fs occurs in gs at least as often as in fs
Included(fs, gs) == \A f \in Range(fs) : Count(f, fs) <= Count(f, gs)

\* C5: whichever rules raise, the loop of analyze_html is not aborted: every
\* rule is called, each raising rule adds exactly one RULE_ERROR finding
\* (severity low, weight 1, naming the rule's id), and every finding a
\* non-raising rule returned, before or after a raising one, is in the Report.
C5_FailureIsolation ==
    /\ LoopEnded =>
          /\ Len(calls) = Len(rules)
          /\ MatchesCalls(calls, findings)
    /\ report # NoReport =>
          /\ Included(findings, report.findings)
          /\ Len(report.findings) = Len(findings)

\* C5 witness: a Report was returned after a builtin and a supplied rule
\* raised, with rules that returned findings before and after a raising one.
C5_Witness ==
    /\ pc = "done"
    /\ \E i, j, k \in 1..Len(calls) :
          /\ i < j /\ j < k
          /\ calls[i].out # <<>>
          /\ calls[j].raises /\ j <= Len(get_builtin_rules)
          /\ calls[k].out # <<>>
    /\ \E j \in 1..Len(calls) : calls[j].raises /\ j > Len(get_builtin_rules)

\* a supplied rule whose check does not return a list of Findings, or
\* changes the document it is handed
Misbehaves(rule) ==
    \/ rule.check.fn \in {"raises", "returns_none", "clears_soup"}
    \/ \E k \in 1..Len(rule.check.out) : ~IsFinding(rule.check.out[k])

\* the findings list after the loop of analyze_html over the rules rs
RECURSIVE RunRules(_, _, _, _)
RunRules(rs, doc, context, fs) ==
    IF rs = <<>> THEN fs
    ELSE RunRules(Tail(rs), SoupAfter(Head(rs), doc), context,
                  FindingsAfter(fs, Head(rs), CheckResult(Head(rs), doc, context)))

\* the sequence s without its k-th element
Without(s, k) == SubSeq(s, 1, k - 1) \o SubSeq(s, k + 1, Len(s))

\* C6: one malformed or malicious supplied rule cannot suppress the findings
\* of any other rule: whatever its check does, analyze_html returns a Report
\* that holds every finding the other rules produce when that rule is absent.
C6_NoSuppression ==
    (entry = "analyze_html" /\ pc \in {"done", "raised"}) =>
        \A k \in (Len(get_builtin_rules) + 1)..Len(rules) :
            (\A j \in (Len(get_builtin_rules) + 1)..Len(rules) : Misbehaves(rules[j]) <=> j = k)
            => /\ report # NoReport
               /\ Included(RunRules(Without(rules, k), html, ctx, <<>>), report.findings)

\* the ids of the ten builtin rules, in the order get_builtin_rules declares
BuiltinOrder ==
    << "FORM_ACTION_EXTERNAL", "FORM_ACTION_INSECURE_HTTP", "EXTERNAL_JS_MIXED_DOMAINS",
       "META_REFRESH_REDIRECT", "SUSPICIOUS_HIDDEN_INPUTS", "JS_OBFUSCATION_APIS",
       "JS_HIGH_ENTROPY_INLINE", "JS_LOCALHOST_CALLS", "SUSPICIOUS_DOMAIN_PATTERN",
       "IFRAME_HIDDEN" >>

\* C7: analyze_html calls the check of every rule exactly once, in list
\* order: the ten builtin rules in their declared order, then the supplied
\* rules in the order given; the loop is never stuck before the end of the
\* list, and the findings of supplied rules are in the Report.
C7_EveryRuleOnceInOrder ==
    (entry = "analyze_html" /\ pc # "start") =>
        /\ Len(rules) = Len(BuiltinOrder) + Len(extra_rules)
        /\ \A k \in 1..Len(BuiltinOrder) : rules[k].rule_id = BuiltinOrder[k]
        /\ \A k \in 1..Len(extra_rules) : rules[Len(BuiltinOrder) + k] = extra_rules[k]
        /\ Len(calls) = idx - 1
        /\ \A k \in 1..Len(calls) :
              calls[k].idx = k /\ calls[k].rule_id = rules[k].rule_id
        /\ pc = "rules" => idx \in 1..Len(rules)
        /\ pc # "rules" => Len(calls) = Len(rules)
        /\ report # NoReport =>
              \A k \in (Len(BuiltinOrder) + 1)..Len(calls) :
                  \A f \in Range(calls[k].out) : f \in Range(report.findings)

\* C7 witness: a Report holds the findings of two supplied rules, called
\* after the ten builtin rules.
C7_Witness ==
    /\ pc = "done"
    /\ Len(calls) = Len(BuiltinOrder) + 2
    /\ \A k \in (Len(BuiltinOrder) + 1)..Len(calls) :
          /\ calls[k].out # <<>>
          /\ \A f \in Range(calls[k].out) : f \in Range(report.findings)
    /\ calls[Len(calls)].rule_id # calls[Len(calls) - 1].rule_id


\* C8: a document that holds exactly one form whose action is
\* http://evil.example/collect, one inline script of more than 80 characters
\* calling eval(...) and one iframe with width="0", analysed with the builtin
\* rules and a base URL on another, non-suspicious domain, is rated high_risk.
C8_EndToEndHighRisk ==
    ( /\ pc = "done"
      /\ extra_rules = <<>>
      /\ Len(html.forms) = 1
      /\ html.forms[1].action = <<"h", "t", "t", "p", ":", "/", "/", "e", "v", "i", "l", ".", "e", "x", "a", "m", "p", "l", "e", "/", "c", "o", "l", "l", "e", "c", "t">>
      /\ Len(html.scripts) = 1
      /\ html.scripts[1].src = <<>>
      /\ html.scripts[1].len > 80
      /\ html.scripts[1].obfuscation_hits
      /\ Len(html.iframes) = 1
      /\ html.iframes[1].width = <<"0">>
      /\ html.metas = <<>> /\ html.inputs = <<>> /\ html.links = <<>>
      /\ html.imgs = <<>> /\ html.anchors = <<>>
      /\ ctx.base_domain \notin {<<>>, <<"e", "v", "i", "l", ".", "e", "x", "a", "m", "p", "l", "e">>}
      /\ SuspiciousReasons(ctx.base_domain) = {} )
    => report.rating = "high_risk"

\* C9: two findings of two different high-severity builtin rules always get
\* a strictly higher score from _score_from_findings than any number of
\* repeated findings of one single low-weight builtin rule.
C9_DiversityOverVolume ==
    ( /\ entry = "_score_from_findings"
      /\ pc = "scored"
      /\ findings \in RepeatedLows )
    => \A pair \in HighPairs : _score_from_findings(pair) > score

\* the document doc with the action of its k-th form removed
WithoutAction(doc, k) == [doc EXCEPT !.forms[k].action = <<>>]

\* the forms of doc whose action has a domain that differs from the base
\* domain and is not allowlisted
ExternalForms(doc, context) ==
    {k \in 1..Len(doc.forms) :
        /\ get_domain(Strip(doc.forms[k].action)) # <<>>
        /\ get_domain(Strip(doc.forms[k].action)) # context.base_domain
        /\ ~is_allowlisted(get_domain(Strip(doc.forms[k].action)), context.allowlist)}

\* the score of the Report of analyze_html(doc, ...) with the base URL,
\* allowlist and rules of the state
ScoreOf(doc) ==
    _score_from_findings(
        RunRules(rules, doc, BuildContext(doc, "<memory>", base_url, allowlist), <<>>))

\* C10 as stated: a document with a form whose action points to a domain
\* that differs from the base domain and is not allowlisted scores strictly
\* higher than the same document with that form action removed (same base
\* URL, allowlist and rules; the base URL has a domain).
C10_ExternalActionScoresHigher ==
    (pc = "done" /\ ctx.base_domain # <<>>) =>
        \A k \in ExternalForms(html, ctx) : report.score > ScoreOf(WithoutAction(html, k))

\* C10 as amended: the document with the external form action never scores
\* lower than the document without it, and scores strictly higher unless the
\* document without it is already at the ceiling of 100 (same base URL,
\* allowlist and rules; the base URL has a domain).
C10_ExternalActionScoresHigherBelowCap ==
    (pc = "done" /\ ctx.base_domain # <<>>) =>
        \A k \in ExternalForms(html, ctx) :
            /\ report.score >= ScoreOf(WithoutAction(html, k))
            /\ ScoreOf(WithoutAction(html, k)) < 100
                  => report.score > ScoreOf(WithoutAction(html, k))

\* C10 witness: a document with two external form actions got a Report;
\* without the second one it scores lower, and below 100.
C10_Witness ==
    /\ pc = "done"
    /\ ctx.base_domain # <<>>
    /\ ExternalForms(html, ctx) = {1, 2}
    /\ ScoreOf(WithoutAction(html, 2)) < report.score
    /\ report.score < 100


\* the host of an authority: the text after its last "@", without the port
\* (an IP literal in brackets is kept whole), in lower case
HostOfAuthority(netloc) ==
    LET ats == {k \in 1..Len(netloc) : netloc[k] = "@"}
        hostport == IF ats = {} THEN netloc ELSE SubSeq(netloc, Max(ats) + 1, Len(netloc))
        closes == {k \in 1..Len(hostport) : hostport[k] = "]"}
        colons == {k \in 1..Len(hostport) : hostport[k] = ":"}
    IN Lower(IF hostport # <<>> /\ Head(hostport) = "[" /\ closes # {}
             THEN SubSeq(hostport, 1, Min(closes))
             ELSE IF colons = {} THEN hostport
             ELSE SubSeq(hostport, 1, Min(colons) - 1))

\* C11: get_domain returns, for every string, the lower-cased host of the URL
\* with the userinfo (everything up to the last "@" of the authority) and the
\* port stripped, "" when the URL has no host; the result holds no "@" and
\* no ":".
C11_GetDomainIsHost ==
    (entry = "get_domain" /\ pc = "returned") =>
        /\ "@" \notin Range(call.result)
        /\ ":" \notin Range(call.result)
        /\ call.result = HostOfAuthority(Strip(safe_urlparse(call.url).netloc))


\* the domain d (in lower case) matches the allowlist entry e (in lower
\* case): it equals e, or e is *.suffix with a non-empty suffix and d is the
\* suffix or ends with "." and the suffix
MatchesEntry(d, e) ==
    \/ d = e
    \/ /\ Len(e) > 2
       /\ SubSeq(e, 1, 2) = <<"*", ".">>
       /\ \/ d = SubSeq(e, 3, Len(e))
          \/ /\ Len(d) >= Len(e) - 1
             /\ SubSeq(d, Len(d) - Len(e) + 2, Len(d)) = SubSeq(e, 2, Len(e))

\* C12: is_allowlisted compares case-insensitively on the domain and on the
\* allowlist entries, and is true exactly when the domain is non-empty and
\* equals an entry or matches an entry *.suffix (as the suffix or as a name
\* ending with "." and the suffix).
C12_AllowlistCaseInsensitive ==
    (entry = "is_allowlisted" /\ pc = "returned") =>
        (call.allowed <=>
            /\ call.domain # <<>>
            /\ \E e \in call.allowlist : MatchesEntry(Lower(call.domain), Lower(e)))


\* C13: analyze_html on a document with no elements, with the builtin rules
\* only and any base URL and allowlist, raises nowhere and returns a Report
\* with a low score (nothing, or the one SUSPICIOUS_DOMAIN_PATTERN finding
\* about the base domain) and the rating low_risk.
C13_EmptyDocumentLowRisk ==
    (entry = "analyze_html" /\ html = EmptySoup /\ extra_rules = <<>>) =>
        /\ pc # "raised"
        /\ \A k \in 1..Len(calls) : ~calls[k].raises
        /\ pc = "done" =>
             /\ report.score \in {0, BuiltinRule("SUSPICIOUS_DOMAIN_PATTERN").weight}
             /\ report.rating = "low_risk"
             /\ report.stats.resource_domains = <<>>

\* C13 witness: an empty document with a base URL on a suspicious domain got
\* a Report with one finding and the rating low_risk.
C13_Witness ==
    /\ entry = "analyze_html" /\ html = EmptySoup /\ extra_rules = <<>>
    /\ pc = "done"
    /\ report.score > 0
    /\ Len(report.findings) = 1
    /\ report.rating = "low_risk"


\* the value a module supplies as its rules: get_rules() if it defines
\* get_rules, else RULES
SuppliedBy(p) == IF "get_rules" \in p.exports THEN p.get_rules ELSE p.RULES

\* a plugin path that keeps the rule-supplier contract
KeepsContract(p) ==
    /\ p.exists /\ p.is_file
    /\ p.exports # {}
    /\ SuppliedBy(p).is_list_or_tuple
    /\ \A k \in 1..Len(SuppliedBy(p).items) : IsRule(SuppliedBy(p).items[k])

\* the rules of the plugin paths ps, in order
RECURSIVE AllRules(_)
AllRules(ps) == IF ps = <<>> THEN <<>> ELSE SuppliedBy(Head(ps)).items \o AllRules(Tail(ps))

\* C14: a violation of the rule-supplier contract is fatal and precedes all
\* analysis: with a plugin path that is missing, not a file, defines neither
\* get_rules nor RULES, supplies no list or tuple, or supplies an entry that
\* is not a Rule, load_plugins never returns a rule list (it raises) and no
\* document is analysed; in scan and in scan-url no document is analysed
\* before load_plugins has returned, and every document is analysed with all
\* the rules of all the plugins.
C14_ContractViolationFatal ==
    entry = "main" =>
        /\ (\E k \in 1..Len(call.plugin) : ~KeepsContract(call.plugin[k]))
              => /\ ~call.loaded
                 /\ call.extra_rules = <<>>
                 /\ call.analyzed = <<>>
                 /\ pc \in {"main", "load_plugins", "main_raised"}
                 /\ pc = "main_raised" =>
                       /\ call.error \in {"FileNotFoundError", "ValueError",
                                          "AttributeError", "TypeError"}
                       /\ ~KeepsContract(call.plugin[call.i])
                       /\ \A k \in 1..(call.i - 1) : KeepsContract(call.plugin[k])
        /\ call.analyzed # <<>> => (call.plugin = <<>> \/ call.loaded)
        /\ call.loaded => call.extra_rules = AllRules(call.plugin)
        /\ \A k \in 1..Len(call.analyzed) : call.analyzed[k] = AllRules(call.plugin)

\* C14 witness: load_plugins raised on the second path, whose get_rules()
\* returned an entry that is not a Rule, after the first path had supplied a
\* Rule; no document was analysed.
C14_Witness ==
    /\ entry = "main"
    /\ pc = "main_raised"
    /\ call.i = 2
    /\ call.rules # <<>>
    /\ call.error = "TypeError"
    /\ \E k \in 1..Len(call.plugin[2].get_rules.items) : ~IsRule(call.plugin[2].get_rules.items[k])
    /\ call.analyzed = <<>>


\* C15: the findings of every Report analyze_html returns are in order of
\* non-increasing weight and are a permutation of the findings collected by
\* the loop over the rules, the RULE_ERROR findings included.
C15_ReportFindingsSorted ==
    (entry = "analyze_html" /\ pc = "done") =>
        /\ \A k \in 1..(Len(report.findings) - 1) :
              report.findings[k].weight >= report.findings[k + 1].weight
        /\ Len(report.findings) = Len(findings)
        /\ \A f \in Range(findings) \cup Range(report.findings) :
              Count(f, report.findings) = Count(f, findings)

\* C15 witness: a Report whose findings are the collected ones in another
\* order, a RULE_ERROR finding and two findings of one weight among them.
C15_Witness ==
    /\ entry = "analyze_html" /\ pc = "done"
    /\ report.findings # findings
    /\ \E k \in 1..Len(report.findings) : report.findings[k].rule_id = "RULE_ERROR"
    /\ \E k \in 1..(Len(report.findings) - 1) :
          /\ report.findings[k].weight = report.findings[k + 1].weight
          /\ report.findings[k] # report.findings[k + 1]


\* the last call of a check raised (its finding is the last of the list)
LastCallRaised ==
    /\ entry = "analyze_html"
    /\ calls # <<>>
    /\ calls[Len(calls)].raises

\* C16 as stated: when a rule's check raises, the RULE_ERROR finding carries
\* the failing rule's id and the failure text in its evidence map.
C16_ErrorEvidenceHoldsIdAndText ==
    LastCallRaised =>
        LET f == findings[Len(findings)]
        IN /\ f.rule_id = "RULE_ERROR"
           /\ \E key \in DOMAIN f.evidence : f.evidence[key] = calls[Len(calls)].rule_id
           /\ \E key \in DOMAIN f.evidence : f.evidence[key] = calls[Len(calls)].text

\* C16 as amended: when a rule's check raises, the RULE_ERROR finding
\* carries the failing rule's id in its evidence map (its only entry) and
\* the failure text as its description.
C16_ErrorCarriesIdAndText ==
    LastCallRaised =>
        LET f == findings[Len(findings)]
        IN /\ f.rule_id = "RULE_ERROR"
           /\ f.evidence = [rule_id |-> calls[Len(calls)].rule_id]
           /\ f.description = calls[Len(calls)].text

\* C16 witness: the builtin META_REFRESH_REDIRECT check raised on a target
\* that does not parse, and the findings list ends with its RULE_ERROR finding.
C16_Witness ==
    /\ LastCallRaised
    /\ calls[Len(calls)].rule_id = "META_REFRESH_REDIRECT"
    /\ calls[Len(calls)].text = "Invalid IPv6 URL"
    /\ findings[Len(findings)].rule_id = "RULE_ERROR"


\* the list fs in the order p (a permutation of its positions)
Permuted(fs, p) == [k \in 1..Len(fs) |-> fs[p[k]]]

\* the findings lists whose permutations are scored: up to MaxLen findings of
\* a capped and an uncapped rule id, of negative, zero, small and large weight
PermutedLists ==
    SeqsUpTo({f \in PoolFindings :
                f.rule_id \in {"JS_HIGH_ENTROPY_INLINE", "SUSPICIOUS_HIDDEN_INPUTS"}}, MaxLen)

\* C17: the score depends only on the multiset of the findings, not on their
\* order: _score_from_findings returns the same score for every permutation
\* of a findings list (and so the same rating).
C17_ScoreOrderIndependent ==
    (entry = "_score_from_findings" /\ pc = "scored" /\ findings \in PermutedLists) =>
        \A p \in Permutations(1..Len(findings)) :
            /\ _score_from_findings(Permuted(findings, p)) = score
            /\ _rating(_score_from_findings(Permuted(findings, p))) = _rating(score)

\* C17 witness: a scored list of three findings, two of one rule id with the
\* lighter one first, and one of another rule id between them.
C17_Witness ==
    /\ entry = "_score_from_findings" /\ pc = "scored"
    /\ findings \in PermutedLists
    /\ Len(findings) = 3
    /\ findings[1].rule_id = findings[3].rule_id
    /\ findings[1].rule_id # findings[2].rule_id
    /\ 0 < findings[1].weight
    /\ findings[1].weight < findings[3].weight
    /\ score < 100


\* the domains a finding of a domain-based builtin rule was emitted for
DomainsOfFinding(f) ==
    IF f.rule_id = "FORM_ACTION_EXTERNAL" THEN {f.evidence.action_domain}
    ELSE IF f.rule_id = "META_REFRESH_REDIRECT" THEN {f.evidence.redirect_domain}
    ELSE IF f.rule_id = "EXTERNAL_JS_MIXED_DOMAINS" THEN f.evidence.external_script_domains
    ELSE IF f.rule_id = "SUSPICIOUS_DOMAIN_PATTERN" THEN f.evidence.suspicious_domains
    ELSE {}

\* C18: empty domains are excluded from the domain-based rule logic: no
\* finding of FORM_ACTION_EXTERNAL, EXTERNAL_JS_MIXED_DOMAINS,
\* META_REFRESH_REDIRECT or SUSPICIOUS_DOMAIN_PATTERN is emitted for a URL
\* whose domain get_domain returns as "", and "" is no key of the
\* resource-domain map.
C18_EmptyDomainsExcluded ==
    (entry = "analyze_html" /\ extra_rules = <<>> /\ pc # "start") =>
        /\ \A k \in 1..Len(findings) : <<>> \notin DomainsOfFinding(findings[k])
        /\ <<>> \notin DictKeys(ctx.resource_domains)


\* the finding comes from an externally supplied rule
IsSupplied(f) == "supplied" \in DOMAIN f.evidence /\ f.evidence.supplied

\* C19: rule ids are not checked for uniqueness and grouping is by rule_id
\* alone: when an external rule emits findings with a builtin rule's id,
\* the builtin and the external findings of that id are one group of
\* _score_from_findings; the heaviest finding of the combined group counts
\* in full, the others max(1, weight div 2), and the cap of the builtin id
\* bounds the combined group.
C19_SharedIdOneGroup ==
    (entry = "analyze_html" /\ Scored) =>
        \A g \in 1..Len(groups) :
            LET id == groups[g].rule_id
                ws == WeightsOf(groups[g].items_sorted, id)
            IN /\ \A h \in 1..Len(groups) : groups[h].rule_id = id => h = g
               /\ groups[g].items = SelectSeq(findings, LAMBDA f : f.rule_id = id)
               /\ (\A k \in 1..Len(ws) : ws[k] >= 0) =>
                     /\ \A k \in 1..Len(ws) : ws[k] <= ws[1]
                     /\ groups[g].contrib = ws[1] + SumHalves(Tail(ws))
               /\ groups[g].added =
                     IF id \in DOMAIN _RULE_MAX_CONTRIBUTION
                     THEN Min({_RULE_MAX_CONTRIBUTION[id], groups[g].contrib})
                     ELSE groups[g].contrib

\* C19 witness: the group of JS_HIGH_ENTROPY_INLINE holds the builtin rule's
\* finding (weight 6) and a heavier one of an external rule (weight 30); it
\* counts 30 + 3 before the cap and adds the cap, 12.
C19_Witness ==
    /\ entry = "analyze_html" /\ Scored
    /\ \E g \in 1..Len(groups) :
          /\ groups[g].rule_id = "JS_HIGH_ENTROPY_INLINE"
          /\ Len(groups[g].items) = 2
          /\ ~IsSupplied(groups[g].items[1])
          /\ IsSupplied(groups[g].items[2])
          /\ groups[g].contrib = 33
          /\ groups[g].added = 12


\* the attribute values of the six pairs script/src, link/href, img/src,
\* iframe/src, form/action, a/href of a document, each with its element
ScannedAttributes(doc) ==
    {<<"script", k, doc.scripts[k].src>> : k \in 1..Len(doc.scripts)}
    \cup {<<"link", k, doc.links[k]>> : k \in 1..Len(doc.links)}
    \cup {<<"img", k, doc.imgs[k]>> : k \in 1..Len(doc.imgs)}
    \cup {<<"iframe", k, doc.iframes[k].src>> : k \in 1..Len(doc.iframes)}
    \cup {<<"form", k, doc.forms[k].action>> : k \in 1..Len(doc.forms)}
    \cup {<<"a", k, doc.anchors[k]>> : k \in 1..Len(doc.anchors)}

\* the scanned attributes whose value is non-empty and has the domain d
AttributesOfDomain(doc, d) ==
    {a \in ScannedAttributes(doc) : Strip(a[3]) # <<>> /\ get_domain(Strip(a[3])) = d}

\* the scanned attributes whose value is non-empty and has a domain
AttributesWithDomain(doc) ==
    {a \in ScannedAttributes(doc) : Strip(a[3]) # <<>> /\ get_domain(Strip(a[3])) # <<>>}

RECURSIVE SumCounts(_)
SumCounts(items) == IF items = <<>> THEN 0 ELSE Head(items).count + SumCounts(Tail(items))

\* C20: _collect_resource_domains scans exactly script/src, link/href,
\* img/src, iframe/src, form/action and a/href; the count of each domain of
\* the map is the number of non-empty values among them with that domain,
\* every domain with such a value is a key, the counts add up to the number
\* of values with a non-empty domain, and the map iterates in order of
\* non-increasing count (the map as analyze_html holds it when the loop over
\* the rules begins).
C20_ResourceDomainCounts ==
    (entry = "analyze_html" /\ pc = "rules" /\ idx = 1) =>
        LET rd == ctx.resource_domains
        IN /\ \A j, k \in 1..Len(rd) : rd[j].domain = rd[k].domain => j = k
           /\ \A k \in 1..Len(rd) :
                 rd[k].count = Cardinality(AttributesOfDomain(html, rd[k].domain))
           /\ \A a \in AttributesWithDomain(html) :
                 get_domain(Strip(a[3])) \in DictKeys(rd)
           /\ SumCounts(rd) = Cardinality(AttributesWithDomain(html))
           /\ \A k \in 1..(Len(rd) - 1) : rd[k].count >= rd[k + 1].count

\* C20 witness: a map of three or more domains, of different counts, from a
\* document that also holds values without a domain and a form action with
\* one.
C20_Witness ==
    /\ entry = "analyze_html" /\ pc = "rules" /\ idx = 1
    /\ Len(ctx.resource_domains) >= 3
    /\ ctx.resource_domains[1].count > ctx.resource_domains[Len(ctx.resource_domains)].count
    /\ Cardinality(AttributesWithDomain(html)) < Cardinality(ScannedAttributes(html))
    /\ \E a \in AttributesWithDomain(html) : a[1] = "form"


\* the position of a rating on the scale low_risk < medium_risk < high_risk
RatingRank(rating_) ==
    IF rating_ = "low_risk" THEN 0 ELSE IF rating_ = "medium_risk" THEN 1 ELSE 2

\* the findings added to a list: one of every rule id and weight of the pool
\* (a capped and an uncapped id; a negative, a zero, a small and a large
\* weight), a finding of every builtin rule of high severity and of every
\* builtin rule with a cap, and the RULE_ERROR finding of a failing rule
ExtraFindings ==
    PoolFindings
        \cup {BuiltinFinding(id) : id \in BuiltinIds({"high"})}
        \cup {BuiltinFinding(id) : id \in DOMAIN _RULE_MAX_CONTRIBUTION}
        \cup {RuleErrorFinding(BuiltinRule("JS_OBFUSCATION_APIS"), "boom")}

\* the findings of fs that share f's rule id
GroupOf(fs, f) == SelectSeq(fs, LAMBDA g : g.rule_id = f.rule_id)

\* f is heavier than every finding of its (non-empty) group in fs
HeavierThanGroup(fs, f) ==
    /\ GroupOf(fs, f) # <<>>
    /\ \A k \in 1..Len(GroupOf(fs, f)) : GroupOf(fs, f)[k].weight < f.weight

\* the scored lists to which a finding is added: the findings of every
\* analysed document, and of the lists scored directly those shorter than
\* MaxLen, the pairs of high-severity findings and the repeated findings
ExtendedLists ==
    {fs \in {findings} :
        \/ entry = "analyze_html"
        \/ Len(fs) < MaxLen
        \/ fs \in HighPairs \cup RepeatedLows}

\* the score more and its rating are not lower than the score less and its
\* rating
NotLower(less, more) ==
    /\ more >= less
    /\ RatingRank(_rating(more)) >= RatingRank(_rating(less))

\* C21: the score is monotone in the findings: for every findings list L and
\* every additional finding f, of any rule id and any integer weight (also one
\* heavier than all the findings of its group), _score_from_findings(L + [f])
\* is at least _score_from_findings(L), and the rating is not lower either.
C21_ScoreMonotone ==
    (pc = "scored" /\ findings \in ExtendedLists) =>
        \A f \in ExtraFindings :
            NotLower(score, _score_from_findings(Append(findings, f)))

\* C21 witness: a scored list to which a finding heavier than all of its
\* group can be added, raising the score, and to which a finding of negative
\* weight of a rule id not yet in the list can be added.
C21_Witness ==
    /\ entry = "_score_from_findings" /\ pc = "scored"
    /\ findings \in ExtendedLists
    /\ score > 0
    /\ \E f \in ExtraFindings :
            /\ HeavierThanGroup(findings, f)
            /\ _score_from_findings(Append(findings, f)) > score
    /\ \E f \in ExtraFindings : f.weight < 0 /\ GroupOf(findings, f) = <<>>

====
